---- MODULE Spec2Model ----
(***************************************************************************)
(* Model of the runware-go client (final revision of runware.go):          *)
(* NewGenerateImagesV1 / Config / GenerateV1, with the helpers             *)
(* buildClient, sendRequest, getDimensionValue and skipEmptyOrNil.         *)
(*                                                                         *)
(* Go values that travel as `any` carry their dynamic type, because        *)
(* skipEmptyOrNil compares interface values: a value is the record         *)
(* [t |-> <dynamic type>, v |-> <value>].                                  *)
(***************************************************************************)
EXTENDS Integers, Sequences, FiniteSets, TLC

VARIABLES g, uuidNext, lastBatch, nConfigs, issued, call, panicked

vars == <<g, uuidNext, lastBatch, nConfigs, issued, call, panicked>>

(* ---------------- bounds ---------------- *)
MaxBatch == 2
MaxConfigs == 2

(* ---------------- dynamically typed values ---------------- *)
NilV == [t |-> "nil"]
Str(s) == [t |-> "string", v |-> s]
TaskTypeV(s) == [t |-> "TaskType", v |-> s]
OutputTypeV(s) == [t |-> "OutputType", v |-> s]
OutputFormatV(s) == [t |-> "OutputFormat", v |-> s]
DefinitionV(n) == [t |-> "Definition", v |-> n]
Uint8V(n) == [t |-> "uint8", v |-> n]
BoolV(b) == [t |-> "bool", v |-> b]
Int8V(n) == [t |-> "int8", v |-> n]
IntV(n) == [t |-> "int", v |-> n]

(* ---------------- package constants ---------------- *)
ImageInference == "imageInference"
Base64Data == "base64Data"
PNG == "PNG"
SD_Height == 512
SD_Width == 512
SD_Portrait3_4Height == 1024
SD_Portrait3_4Width == 768
SD_Portrait9_16Height == 1152
SD_Portrait9_16Width == 640
SD_Landscape4_3Height == 768
SD_Landscape4_3Width == 1024
SD_Landscape16_9Height == 640
SD_Landscape16_9Width == 1152
HD_Height == 1024
HD_Width == 1024
HD_Portrait3_4Height == 1536
HD_Portrait3_4Width == 1152
HD_Portrait9_16Height == 1728
HD_Portrait9_16Width == 960
HD_Landscape4_3Height == 1152
HD_Landscape4_3Width == 1536
HD_Landscape16_9Height == 960
HD_Landscape16_9Width == 1728

\* the closed resolution enumeration: the values of the SD_*/HD_* presets
ResolutionEnum ==
  { SD_Height, SD_Width, SD_Portrait3_4Height, SD_Portrait3_4Width,
    SD_Portrait9_16Height, SD_Portrait9_16Width, SD_Landscape4_3Height,
    SD_Landscape4_3Width, SD_Landscape16_9Height, SD_Landscape16_9Width,
    HD_Height, HD_Width, HD_Portrait3_4Height, HD_Portrait3_4Width,
    HD_Portrait9_16Height, HD_Portrait9_16Width, HD_Landscape4_3Height,
    HD_Landscape4_3Width, HD_Landscape16_9Height, HD_Landscape16_9Width }

v1Domain == "https://api.runware.ai/v1"

(* ---------------- caller inputs ---------------- *)
\* every recognized key supplied with a non-zero value: the option map of
\* examples/generate_one_image.go plus an upload endpoint
OptFull ==
  [ taskType |-> TaskTypeV(ImageInference), taskUUID |-> Str("065cb06a"),
    prompt |-> Str("A dragon flying over mountains"),
    width |-> DefinitionV(SD_Landscape16_9Width),
    height |-> DefinitionV(SD_Landscape16_9Height),
    model |-> Str("runware:100@1"), results |-> Uint8V(1),
    uploadEndpoint |-> Str("https://upload"),
    checkNSFW |-> BoolV(TRUE), includeCost |-> BoolV(TRUE),
    outputType |-> OutputTypeV(Base64Data), outputFormat |-> OutputFormatV(PNG) ]

\* a prompt and nothing else
OptMinimal == [ prompt |-> Str("Sunset over ocean") ]

\* the edge values: every string-like field supplied empty, dimensions off
\* the preset grid with one above 32767, checkNSFW an explicit false,
\* includeCost present but nil
OptEdge ==
  [ taskType |-> TaskTypeV(""), taskUUID |-> Str(""), prompt |-> Str(""),
    model |-> Str(""), uploadEndpoint |-> Str(""),
    outputType |-> OutputTypeV(""), outputFormat |-> OutputFormatV(""),
    width |-> DefinitionV(513), height |-> DefinitionV(40000),
    checkNSFW |-> BoolV(FALSE), includeCost |-> NilV ]

OptionMaps == << OptFull, OptMinimal, OptEdge >>

\* the README's example map: results is an int8 where Config asserts uint8
OptReadme ==
  [ taskType |-> TaskTypeV(ImageInference), taskUUID |-> Str("065cb06a"),
    prompt |-> Str("A dragon flying over mountains"),
    width |-> DefinitionV(SD_Landscape16_9Width),
    height |-> DefinitionV(SD_Landscape16_9Height),
    model |-> Str("runware:100@1"), results |-> Int8V(1),
    checkNSFW |-> BoolV(TRUE), includeCost |-> BoolV(TRUE),
    outputType |-> OutputTypeV(Base64Data), outputFormat |-> OutputFormatV(PNG) ]

\* width and height as plain integers, no taskUUID
OptPlainInt ==
  [ prompt |-> Str("A lighthouse"), width |-> IntV(512), height |-> IntV(512),
    checkNSFW |-> BoolV(TRUE) ]

\* well-typed recognized keys next to keys Config does not know
OptUnknownKeys ==
  [ prompt |-> Str("Sunset over ocean"), checkNSFW |-> BoolV(FALSE),
    negativePrompt |-> Str("blurry"), seed |-> IntV(7), steps |-> NilV ]

OptionMapsLoose == << OptUnknownKeys, OptReadme, OptPlainInt >>

\* a batch of loosely typed option maps, named by their indices
BatchOfLoose(idx) == [j \in 1..Len(idx) |-> OptionMapsLoose[idx[j]]]

\* the batches of loosely typed option maps a caller may pass
BatchIndicesLoose == UNION { [1..n -> 1..Len(OptionMapsLoose)] : n \in 0..MaxBatch }

\* a batch passed to Config, named by the indices of its option maps
BatchOf(idx) == [j \in 1..Len(idx) |-> OptionMaps[idx[j]]]

\* the batches a caller may pass: up to MaxBatch option maps, in any order
BatchIndices == UNION { [1..n -> 1..Len(OptionMaps)] : n \in 0..MaxBatch }

(* ---------------- uuid.New ---------------- *)
\* the n-th value returned by uuid.New().String(): fresh on every call
UUIDNew(n) == "uuid-" \o ToString(n)

(* ---------------- construction ---------------- *)
ApiKeyOf(c) == "key-" \o ToString(c)

NewGenerateImagesV1(key) ==
  [ apiKey |-> key, options |-> << >>, omittedFields |-> << >> ]

Clients == DOMAIN g

(* ---------------- Config ---------------- *)
\* data[key] of a Go map: nil when the key is missing
Get(data, key) == IF key \in DOMAIN data THEN data[key] ELSE NilV

\* data[key] != nil
Supplied(data, key) == Get(data, key).t # "nil"

\* a RunwareOptions element as make([]RunwareOptions, n) leaves it
ZeroOptions ==
  [ TaskType |-> "", TaskUUID |-> "", Prompt |-> "", Model |-> "",
    UploadEndpoint |-> "", OutputType |-> "", OutputFormat |-> "",
    Width |-> 0, Height |-> 0, NumberOfResults |-> 0,
    CheckNSFW |-> FALSE, IncludeCost |-> FALSE ]

\* data[key].(T) assigned to a field that starts at its zero value
Assign(data, key, zero) == IF Supplied(data, key) THEN data[key].v ELSE zero

\* the body of Config's loop for one option map; fresh is uuid.New().String()
ConfigOptions(data, fresh) ==
  [ TaskType |-> Assign(data, "taskType", ZeroOptions.TaskType),
    TaskUUID |-> IF Supplied(data, "taskUUID") THEN data["taskUUID"].v ELSE fresh,
    Prompt |-> Assign(data, "prompt", ZeroOptions.Prompt),
    Width |-> Assign(data, "width", ZeroOptions.Width),
    Height |-> Assign(data, "height", ZeroOptions.Height),
    Model |-> Assign(data, "model", ZeroOptions.Model),
    NumberOfResults |-> Assign(data, "results", ZeroOptions.NumberOfResults),
    UploadEndpoint |-> Assign(data, "uploadEndpoint", ZeroOptions.UploadEndpoint),
    CheckNSFW |-> Assign(data, "checkNSFW", ZeroOptions.CheckNSFW),
    IncludeCost |-> Assign(data, "includeCost", ZeroOptions.IncludeCost),
    OutputType |-> Assign(data, "outputType", ZeroOptions.OutputType),
    OutputFormat |-> Assign(data, "outputFormat", ZeroOptions.OutputFormat) ]

\* what one iteration appends to g.omittedFields
ConfigOmitted(data) ==
  (IF Supplied(data, "checkNSFW") THEN << >> ELSE << "checkNSFW" >>)
  \o (IF Supplied(data, "includeCost") THEN << >> ELSE << "includeCost" >>)

\* the keys Config reads, in the order of its statements
ConfigKeys ==
  << "taskType", "taskUUID", "prompt", "width", "height", "model", "results",
     "uploadEndpoint", "checkNSFW", "includeCost", "outputType", "outputFormat" >>

\* the type each key is asserted to: data[key].(T)
AssertedType ==
  [ taskType |-> "TaskType", taskUUID |-> "string", prompt |-> "string",
    width |-> "Definition", height |-> "Definition", model |-> "string",
    results |-> "uint8", uploadEndpoint |-> "string", checkNSFW |-> "bool",
    includeCost |-> "bool", outputType |-> "OutputType",
    outputFormat |-> "OutputFormat" ]

\* the statement of the loop body that fills each descriptor field
FieldPos ==
  [ TaskType |-> 1, TaskUUID |-> 2, Prompt |-> 3, Width |-> 4, Height |-> 5,
    Model |-> 6, NumberOfResults |-> 7, UploadEndpoint |-> 8, CheckNSFW |-> 9,
    IncludeCost |-> 10, OutputType |-> 11, OutputFormat |-> 12 ]

\* data[key].(T) panics: the key holds a non-nil value of another type
WrongType(data, key) ==
  Supplied(data, key) /\ data[key].t # AssertedType[key]

\* a panic for any key Config does not know
PanicAt_Strict(data) ==
  IF \E k \in 1..Len(ConfigKeys) : WrongType(data, ConfigKeys[k])
    THEN CHOOSE k \in 1..Len(ConfigKeys) :
           /\ WrongType(data, ConfigKeys[k])
           /\ \A m \in 1..(k - 1) : ~WrongType(data, ConfigKeys[m])
  ELSE IF \E key \in DOMAIN data : key \notin DOMAIN AssertedType
    THEN Len(ConfigKeys) + 1
  ELSE 0

\* the first statement of the loop body whose type assertion panics, 0 if none
PanicAt(data) ==
  IF \E k \in 1..Len(ConfigKeys) : WrongType(data, ConfigKeys[k])
    THEN CHOOSE k \in 1..Len(ConfigKeys) :
           /\ WrongType(data, ConfigKeys[k])
           /\ \A m \in 1..(k - 1) : ~WrongType(data, ConfigKeys[m])
  ELSE 0

\* the descriptor when the loop body panicked at statement p: the fields of
\* the statements before p are assigned, the others are still zero
PartialOptions(full, p) ==
  [ f \in DOMAIN ZeroOptions |-> IF FieldPos[f] < p THEN full[f] ELSE ZeroOptions[f] ]

\* what an iteration that panicked at statement p had appended before
ConfigOmittedUpTo(data, p) ==
  (IF FieldPos.CheckNSFW < p /\ ~Supplied(data, "checkNSFW")
     THEN << "checkNSFW" >> ELSE << >>)
  \o (IF FieldPos.IncludeCost < p /\ ~Supplied(data, "includeCost")
        THEN << "includeCost" >> ELSE << >>)

\* Config's loop with uuid.New() called once, ahead of the loop
RECURSIVE ConfigLoop_OneUUID(_, _, _)
ConfigLoop_OneUUID(st, batch, i) ==
  IF i > Len(batch) \/ st.panic
    THEN [st EXCEPT !.uuid = IF Len(st.ids) > 0 THEN @ + 1 ELSE @]
  ELSE LET data == batch[i]
           p == PanicAt(data)
           gen == ~Supplied(data, "taskUUID") /\ (p = 0 \/ FieldPos.TaskUUID < p)
           full == ConfigOptions(data, UUIDNew(st.uuid))
           opt == IF p = 0 THEN full ELSE PartialOptions(full, p)
       IN ConfigLoop_OneUUID(
            [ impl |-> [ st.impl EXCEPT
                           !.options = [@ EXCEPT ![i] = opt],
                           !.omittedFields =
                              @ \o (IF p = 0 THEN ConfigOmitted(data)
                                     ELSE ConfigOmittedUpTo(data, p)) ],
              uuid |-> st.uuid,
              ids |-> IF gen THEN Append(st.ids, opt.TaskUUID) ELSE st.ids,
              panic |-> p # 0 ],
            batch, i + 1)

\* Config's loop from index i on: st = [impl, next uuid, generated ids,
\* panic]; a failed type assertion ends the loop where it stands
RECURSIVE ConfigLoop(_, _, _)
ConfigLoop(st, batch, i) ==
  IF i > Len(batch) \/ st.panic THEN st
  ELSE LET data == batch[i]
           p == PanicAt(data)
           gen == ~Supplied(data, "taskUUID") /\ (p = 0 \/ FieldPos.TaskUUID < p)
           full == ConfigOptions(data, UUIDNew(st.uuid))
           opt == IF p = 0 THEN full ELSE PartialOptions(full, p)
       IN ConfigLoop(
            [ impl |-> [ st.impl EXCEPT
                           !.options = [@ EXCEPT ![i] = opt],
                           !.omittedFields =
                              @ \o (IF p = 0 THEN ConfigOmitted(data)
                                     ELSE ConfigOmittedUpTo(data, p)) ],
              uuid |-> IF gen THEN st.uuid + 1 ELSE st.uuid,
              ids |-> IF gen THEN Append(st.ids, opt.TaskUUID) ELSE st.ids,
              panic |-> p # 0 ],
            batch, i + 1)

\* Config keeping the descriptors of earlier calls and adding the new ones
ConfigImpl_Append(impl, batch, uuid) ==
  LET st == ConfigLoop([ impl |-> [impl EXCEPT !.options = [j \in 1..Len(batch) |-> ZeroOptions]],
                         uuid |-> uuid, ids |-> << >>, panic |-> FALSE ],
                       batch, 1)
  IN [st EXCEPT !.impl.options = impl.options \o @]

\* g.options = make([]RunwareOptions, len(options)), then the loop
ConfigImpl(impl, batch, uuid) ==
  ConfigLoop([ impl |-> [impl EXCEPT !.options = [j \in 1..Len(batch) |-> ZeroOptions]],
               uuid |-> uuid, ids |-> << >>, panic |-> FALSE ],
             batch, 1)

(* ---------------- buildClient ---------------- *)
\* int16(v) of a uint16 and Definition(w) of an int16: 16-bit wrap-around
ToInt16(v) == IF v % 65536 >= 32768 THEN (v % 65536) - 65536 ELSE v % 65536

ToUint16(w) == w % 65536

\* the type switch: a Definition converts, anything else is an error
getDimensionValue(dim) ==
  IF dim.t = "Definition" THEN [val |-> ToInt16(dim.v), err |-> FALSE]
  ELSE [val |-> 0, err |-> TRUE]

\* slices.Contains
Contains(s, x) == \E i \in 1..Len(s) : s[i] = x

\* value == "" on an interface value: true only of a plain string ""
IsEmptyString(value) == value.t = "string" /\ value.v = ""

\* value == nil
IsNil(value) == value.t = "nil"

\* skipEmptyOrNil that also drops a false flag as an empty value
skipEmptyOrNil_DropFalse(option, omitted) ==
  LET dropped == { key \in DOMAIN option :
                     \/ IsEmptyString(option[key])
                     \/ IsNil(option[key])
                     \/ (option[key].t = "bool" /\ ~option[key].v)
                     \/ Contains(omitted, key) }
  IN [ key \in (DOMAIN option) \ dropped |-> option[key] ]

\* skipEmptyOrNil that does not consult the omitted fields
skipEmptyOrNil_IgnoreOmitted(option, omitted) ==
  LET dropped == { key \in DOMAIN option :
                     IsEmptyString(option[key]) \/ IsNil(option[key]) }
  IN [ key \in (DOMAIN option) \ dropped |-> option[key] ]

skipEmptyOrNil(option, omitted) ==
  LET dropped == { key \in DOMAIN option :
                     \/ IsEmptyString(option[key])
                     \/ IsNil(option[key])
                     \/ Contains(omitted, key) }
  IN [ key \in (DOMAIN option) \ dropped |-> option[key] ]

\* the map literal of buildClient for one descriptor
WireMap(request) ==
  [ taskType |-> TaskTypeV(request.TaskType),
    taskUUID |-> Str(request.TaskUUID),
    positivePrompt |-> Str(request.Prompt),
    width |-> DefinitionV(request.Width),
    height |-> DefinitionV(request.Height),
    model |-> Str(request.Model),
    numberOfResults |-> Uint8V(request.NumberOfResults),
    uploadEndpoint |-> Str(request.UploadEndpoint),
    checkNSFW |-> BoolV(request.CheckNSFW),
    includeCost |-> BoolV(request.IncludeCost),
    outputType |-> OutputTypeV(request.OutputType),
    outputFormat |-> OutputFormatV(request.OutputFormat) ]

\* json.Marshal of one value: the Go type is erased, the JSON kind remains
MarshalValue(value) ==
  CASE value.t \in {"string", "TaskType", "OutputType", "OutputFormat"} ->
         [j |-> "string", v |-> value.v]
    [] value.t \in {"Definition", "uint8"} -> [j |-> "number", v |-> value.v]
    [] value.t = "bool" -> [j |-> "bool", v |-> value.v]
    [] OTHER -> [j |-> "null"]

\* json.Marshal of the payload: an array of objects, keys kept
Marshal(payload) ==
  [ i \in 1..Len(payload) |->
      [ key \in DOMAIN payload[i] |-> MarshalValue(payload[i][key]) ] ]

\* buildClient's loop from index i on; the first bad dimension ends it
RECURSIVE PayloadLoop(_, _, _)
RECURSIVE PayloadLoop_Prepend(_, _, _)

RECURSIVE PayloadLoop_Int16(_, _, _)

\* buildClient's loop sending the int16 of getDimensionValue as it is
PayloadLoop_Int16(impl, i, payload) ==
  IF i > Len(impl.options) THEN [err |-> "", payload |-> payload]
  ELSE LET request == impl.options[i]
           width == getDimensionValue(DefinitionV(request.Width))
           height == getDimensionValue(DefinitionV(request.Height))
       IN IF width.err THEN [err |-> "invalid width", payload |-> << >>]
          ELSE IF height.err THEN [err |-> "invalid height", payload |-> << >>]
          ELSE PayloadLoop_Int16(impl, i + 1,
                 Append(payload,
                   skipEmptyOrNil(
                     WireMap([request EXCEPT !.Width = width.val,
                                             !.Height = height.val]),
                     impl.omittedFields)))

\* buildClient's loop putting each new object at the front of the payload
PayloadLoop_Prepend(impl, i, payload) ==
  IF i > Len(impl.options) THEN [err |-> "", payload |-> payload]
  ELSE LET request == impl.options[i]
           width == getDimensionValue(DefinitionV(request.Width))
           height == getDimensionValue(DefinitionV(request.Height))
       IN IF width.err THEN [err |-> "invalid width", payload |-> << >>]
          ELSE IF height.err THEN [err |-> "invalid height", payload |-> << >>]
          ELSE PayloadLoop_Prepend(impl, i + 1,
                 << skipEmptyOrNil(
                      WireMap([request EXCEPT !.Width = ToUint16(width.val),
                                              !.Height = ToUint16(height.val)]),
                      impl.omittedFields) >> \o payload)

PayloadLoop(impl, i, payload) ==
  IF i > Len(impl.options) THEN [err |-> "", payload |-> payload]
  ELSE LET request == impl.options[i]
           width == getDimensionValue(DefinitionV(request.Width))
           height == getDimensionValue(DefinitionV(request.Height))
       IN IF width.err THEN [err |-> "invalid width", payload |-> << >>]
          ELSE IF height.err THEN [err |-> "invalid height", payload |-> << >>]
          ELSE PayloadLoop(impl, i + 1,
                 Append(payload,
                   skipEmptyOrNil(
                     WireMap([request EXCEPT !.Width = ToUint16(width.val),
                                             !.Height = ToUint16(height.val)]),
                     impl.omittedFields)))

NoRequest == [method |-> "", url |-> "", contentType |-> "", authorization |-> "", body |-> << >>]

buildClient(impl, url) ==
  LET built == PayloadLoop(impl, 1, << >>)
  IN IF built.err # "" THEN [err |-> built.err, req |-> NoRequest]
     ELSE [ err |-> "",
            req |-> [ method |-> "POST", url |-> url,
                      contentType |-> "application/json",
                      authorization |-> "Bearer " \o impl.apiKey,
                      body |-> Marshal(built.payload) ] ]

(* ---------------- the provider ---------------- *)
Record1 == [taskUUID |-> "065cb06a", imageUUID |-> "img-1"]
Record2 == [taskUUID |-> "uuid-1", imageUUID |-> "img-2"]
Error1 ==
  [ code |-> "X", message |-> "bad width", parameter |-> "width",
    type |-> "validation", taskType |-> "imageInference" ]

\* response bodies: JSON envelopes with either array present or absent
Bodies ==
  << [data |-> <<Record1, Record2>>],
     [errors |-> <<Error1>>],
     [data |-> <<Record2, Record1>>, errors |-> <<Error1>>] >>

Exchange(d, j, s, b) == [doErr |-> d, decodable |-> j, status |-> s, body |-> b]

\* what client.Do and the response can turn out to be: a failed exchange,
\* an undecodable body, and envelopes on either side of status 400
Exchanges ==
  { Exchange(TRUE, FALSE, 0, 1),
    Exchange(FALSE, FALSE, 200, 1), Exchange(FALSE, FALSE, 500, 1),
    Exchange(FALSE, TRUE, 200, 1), Exchange(FALSE, TRUE, 200, 3),
    Exchange(FALSE, TRUE, 399, 3), Exchange(FALSE, TRUE, 400, 3),
    Exchange(FALSE, TRUE, 500, 2) }

\* json.NewDecoder(resp.Body).Decode(&response): absent arrays stay empty
Decode(body) ==
  [ Data |-> IF "data" \in DOMAIN body THEN body.data ELSE << >>,
    Errors |-> IF "errors" \in DOMAIN body THEN body.errors ELSE << >> ]

\* json.MarshalIndent(response, "", "  "): both arrays, always succeeds
MarshalIndent(response) == [Data |-> response.Data, Errors |-> response.Errors]

(* ---------------- sendRequest ---------------- *)
NilData == [isNil |-> TRUE, recs |-> << >>]
NoError == [kind |-> "nil", text |-> [Data |-> << >>, Errors |-> << >>], msg |-> ""]
ErrorOf(kind, msg) == [kind |-> kind, text |-> [Data |-> << >>, Errors |-> << >>], msg |-> msg]

\* sendRequest reporting only that the status was >= 400, without the records
sendRequest_StatusOnly(impl, url, x) ==
  LET built == buildClient(impl, url)
      response == Decode(Bodies[x.body])
  IN IF built.err # ""
       THEN [data |-> NilData, err |-> ErrorOf("config", built.err), posted |-> << >>]
     ELSE IF x.doErr
       THEN [data |-> NilData, err |-> ErrorOf("transport", "do"), posted |-> <<built.req>>]
     ELSE IF ~x.decodable
       THEN [data |-> NilData, err |-> ErrorOf("transport", "decode"), posted |-> <<built.req>>]
     ELSE IF x.status >= 400
       THEN [ data |-> NilData,
              err |-> ErrorOf("provider", "request failed with status"),
              posted |-> <<built.req>> ]
     ELSE [ data |-> [isNil |-> FALSE, recs |-> response.Data],
            err |-> NoError, posted |-> <<built.req>> ]

\* sendRequest posting a second time when client.Do fails
sendRequest_Retry(impl, url, x) ==
  LET built == buildClient(impl, url)
      response == Decode(Bodies[x.body])
  IN IF built.err # ""
       THEN [data |-> NilData, err |-> ErrorOf("config", built.err), posted |-> << >>]
     ELSE IF x.doErr
       THEN [ data |-> NilData, err |-> ErrorOf("transport", "do"),
              posted |-> <<built.req, built.req>> ]
     ELSE IF ~x.decodable
       THEN [data |-> NilData, err |-> ErrorOf("transport", "decode"), posted |-> <<built.req>>]
     ELSE IF x.status >= 400
       THEN [ data |-> NilData,
              err |-> [kind |-> "provider", text |-> MarshalIndent(response), msg |-> ""],
              posted |-> <<built.req>> ]
     ELSE [ data |-> [isNil |-> FALSE, recs |-> response.Data],
            err |-> NoError, posted |-> <<built.req>> ]

\* sendRequest failing whenever the envelope holds error records
sendRequest_ErrorsFail(impl, url, x) ==
  LET built == buildClient(impl, url)
      response == Decode(Bodies[x.body])
  IN IF built.err # ""
       THEN [data |-> NilData, err |-> ErrorOf("config", built.err), posted |-> << >>]
     ELSE IF x.doErr
       THEN [data |-> NilData, err |-> ErrorOf("transport", "do"), posted |-> <<built.req>>]
     ELSE IF ~x.decodable
       THEN [data |-> NilData, err |-> ErrorOf("transport", "decode"), posted |-> <<built.req>>]
     ELSE IF x.status >= 400 \/ Len(response.Errors) > 0
       THEN [ data |-> NilData,
              err |-> [kind |-> "provider", text |-> MarshalIndent(response), msg |-> ""],
              posted |-> <<built.req>> ]
     ELSE [ data |-> [isNil |-> FALSE, recs |-> response.Data],
            err |-> NoError, posted |-> <<built.req>> ]

\* sendRequest testing the status before decoding the body
sendRequest_StatusFirst(impl, url, x) ==
  LET built == buildClient(impl, url)
      response == Decode(Bodies[x.body])
  IN IF built.err # ""
       THEN [data |-> NilData, err |-> ErrorOf("config", built.err), posted |-> << >>]
     ELSE IF x.doErr
       THEN [data |-> NilData, err |-> ErrorOf("transport", "do"), posted |-> <<built.req>>]
     ELSE IF x.status >= 400
       THEN [ data |-> NilData,
              err |-> [ kind |-> "provider",
                        text |-> IF x.decodable THEN MarshalIndent(response)
                                 ELSE [Data |-> << >>, Errors |-> << >>],
                        msg |-> "" ],
              posted |-> <<built.req>> ]
     ELSE IF ~x.decodable
       THEN [data |-> NilData, err |-> ErrorOf("transport", "decode"), posted |-> <<built.req>>]
     ELSE [ data |-> [isNil |-> FALSE, recs |-> response.Data],
            err |-> NoError, posted |-> <<built.req>> ]

\* sendRequest against one exchange x: the result and the requests posted
sendRequest(impl, url, x) ==
  LET built == buildClient(impl, url)
      response == Decode(Bodies[x.body])
  IN IF built.err # ""
       THEN [data |-> NilData, err |-> ErrorOf("config", built.err), posted |-> << >>]
     ELSE IF x.doErr
       THEN [data |-> NilData, err |-> ErrorOf("transport", "do"), posted |-> <<built.req>>]
     ELSE IF ~x.decodable
       THEN [data |-> NilData, err |-> ErrorOf("transport", "decode"), posted |-> <<built.req>>]
     ELSE IF x.status >= 400
       THEN [ data |-> NilData,
              err |-> [kind |-> "provider", text |-> MarshalIndent(response), msg |-> ""],
              posted |-> <<built.req>> ]
     ELSE [ data |-> [isNil |-> FALSE, recs |-> response.Data],
            err |-> NoError, posted |-> <<built.req>> ]

(* ---------------- state machine ---------------- *)
NoCall ==
  [ done |-> FALSE, data |-> NilData, err |-> NoError, posted |-> << >>,
    x |-> Exchange(FALSE, TRUE, 200, 1) ]

Init ==
  /\ g = [c \in {1} |-> NewGenerateImagesV1(ApiKeyOf(c))]
  /\ uuidNext = 1
  /\ lastBatch = [c \in {1} |-> << >>]
  /\ nConfigs = [c \in {1} |-> 0]
  /\ issued = << >>
  /\ call = [c \in {1} |-> NoCall]
  /\ panicked = [c \in {1} |-> FALSE]

\* Config with the omitted fields kept in one package-level list
Config_SharedOmitted(c, batch) ==
  /\ nConfigs[c] < MaxConfigs
  /\ \E st \in {ConfigImpl(g[c], batch, uuidNext)} :
        /\ g' = [d \in DOMAIN g |->
                   IF d = c THEN st.impl
                   ELSE [g[d] EXCEPT !.omittedFields =
                           @ \o SubSeq(st.impl.omittedFields,
                                       Len(g[c].omittedFields) + 1,
                                       Len(st.impl.omittedFields))]]
        /\ uuidNext' = st.uuid
        /\ issued' = issued \o st.ids
        /\ panicked' = [panicked EXCEPT ![c] = st.panic]
  /\ lastBatch' = [lastBatch EXCEPT ![c] = batch]
  /\ nConfigs' = [nConfigs EXCEPT ![c] = @ + 1]
  /\ call' = [call EXCEPT ![c] = NoCall]

\* client c: Config(batch); a panic leaves what the loop had written, and
\* the caller may recover and go on using the client
Config(c, batch) ==
  /\ nConfigs[c] < MaxConfigs
  /\ \E st \in {ConfigImpl(g[c], batch, uuidNext)} :
        /\ g' = [g EXCEPT ![c] = st.impl]
        /\ uuidNext' = st.uuid
        /\ issued' = issued \o st.ids
        /\ panicked' = [panicked EXCEPT ![c] = st.panic]
  /\ lastBatch' = [lastBatch EXCEPT ![c] = batch]
  /\ nConfigs' = [nConfigs EXCEPT ![c] = @ + 1]
  /\ call' = [call EXCEPT ![c] = NoCall]

\* GenerateV1 that empties the batch once it has been handed to the transport
GenerateV1_Consume(c, x) ==
  /\ \E r \in {sendRequest(g[c], v1Domain, x)} :
        call' = [call EXCEPT ![c] =
                   [done |-> TRUE, data |-> r.data, err |-> r.err,
                    posted |-> r.posted, x |-> x]]
  /\ g' = [g EXCEPT ![c].options = << >>]
  /\ UNCHANGED <<uuidNext, lastBatch, nConfigs, issued, panicked>>

\* client c: GenerateV1(), the provider answering with exchange x
GenerateV1(c, x) ==
  /\ \E r \in {sendRequest(g[c], v1Domain, x)} :
        call' = [call EXCEPT ![c] =
                   [done |-> TRUE, data |-> r.data, err |-> r.err,
                    posted |-> r.posted, x |-> x]]
  /\ UNCHANGED <<g, uuidNext, lastBatch, nConfigs, issued, panicked>>

ConfigCall == \E c \in Clients, idx \in BatchIndices : Config(c, BatchOf(idx))

GenerateV1Call == \E c \in Clients, x \in Exchanges : GenerateV1(c, x)

Next == ConfigCall \/ GenerateV1Call

Spec == Init /\ [][Next]_vars

\* the same client fed loosely typed option maps: values of other types
\* than Config asserts, and keys it does not read
ConfigCallLoose ==
  \E c \in Clients, idx \in BatchIndicesLoose : Config(c, BatchOfLoose(idx))

NextLoose == ConfigCallLoose \/ GenerateV1Call

SpecLoose == Init /\ [][NextLoose]_vars

\* two clients built from different credentials, their calls interleaved
\* in any order; batches of one option map, the provider accepting or
\* rejecting
InitTwo ==
  /\ g = [c \in {1, 2} |-> NewGenerateImagesV1(ApiKeyOf(c))]
  /\ uuidNext = 1
  /\ lastBatch = [c \in {1, 2} |-> << >>]
  /\ nConfigs = [c \in {1, 2} |-> 0]
  /\ issued = << >>
  /\ call = [c \in {1, 2} |-> NoCall]
  /\ panicked = [c \in {1, 2} |-> FALSE]

ExchangesTwo == { Exchange(FALSE, TRUE, 200, 1), Exchange(FALSE, TRUE, 400, 3) }

ConfigCallTwo ==
  \E c \in Clients, m \in 1..Len(OptionMaps) : Config(c, << OptionMaps[m] >>)

GenerateV1CallTwo == \E c \in Clients, x \in ExchangesTwo : GenerateV1(c, x)

NextTwo == ConfigCallTwo \/ GenerateV1CallTwo

SpecTwo == InitTwo /\ [][NextTwo]_vars

(* ---------------- observations used by the properties ---------------- *)
\* GenerateV1 has returned on client c since its last Config and posted
Sent(c) == call[c].done /\ Len(call[c].posted) >= 1

\* the JSON array that went out on client c
Wire(c) == call[c].posted[1].body

\* the object on the wire for task i of client c
WireObject(c, i) == Wire(c)[i]

Tasks(c) == 1..Len(lastBatch[c])

BoolFlags == {"checkNSFW", "includeCost"}

\* option key and the wire key it is sent under
FieldKeys ==
  { <<"taskType", "taskType">>, <<"prompt", "positivePrompt">>,
    <<"width", "width">>, <<"height", "height">>, <<"model", "model">>,
    <<"results", "numberOfResults">>, <<"uploadEndpoint", "uploadEndpoint">>,
    <<"checkNSFW", "checkNSFW">>, <<"includeCost", "includeCost">>,
    <<"outputType", "outputType">>, <<"outputFormat", "outputFormat">> }

(* ---------------- C1 ---------------- *)
\* C1: a task whose option map has no checkNSFW (resp. includeCost) key gets
\* a wire object without that key at all.
C1_UnsuppliedFlagAbsent ==
  \A c \in Clients : Sent(c) =>
    \A i \in Tasks(c) : \A flag \in BoolFlags :
      ~Supplied(lastBatch[c][i], flag) =>
        /\ i \in DOMAIN Wire(c)
        /\ flag \notin DOMAIN WireObject(c, i)

\* a posted batch holding a task without the checkNSFW key and a task with it
C1_Witness ==
  \E c \in Clients : Sent(c) /\ \E i, j \in Tasks(c) :
    /\ "checkNSFW" \notin DOMAIN lastBatch[c][i]
    /\ Supplied(lastBatch[c][j], "checkNSFW")

(* ---------------- C2 ---------------- *)
\* C2: every descriptor field the caller did not supply is absent from the
\* task's wire object.
C2_UnsetFieldAbsent ==
  \A c \in Clients : Sent(c) =>
    \A i \in Tasks(c) : \A f \in FieldKeys :
      ~Supplied(lastBatch[c][i], f[1]) => f[2] \notin DOMAIN WireObject(c, i)

(* ---------------- C3 ---------------- *)
\* C3: when every task of the most recent batch supplies a flag, the flag is
\* on the wire, whatever earlier Config calls on the client omitted.
C3_OmissionSetIsFresh ==
  \A c \in Clients : Sent(c) =>
    \A flag \in BoolFlags :
      (\A i \in Tasks(c) : Supplied(lastBatch[c][i], flag)) =>
        \A i \in Tasks(c) : flag \in DOMAIN WireObject(c, i)

(* ---------------- C4 ---------------- *)
\* C4: a batch with a width or height outside the resolution enumeration
\* (0 included) makes GenerateV1 fail with a configuration error and post
\* nothing.
C4_OffGridRejected ==
  \A c \in Clients : call[c].done =>
    ( (\E i \in 1..Len(g[c].options) :
         \/ g[c].options[i].Width \notin ResolutionEnum
         \/ g[c].options[i].Height \notin ResolutionEnum)
      => /\ call[c].err.kind = "config"
         /\ call[c].posted = << >> )

(* ---------------- C5 ---------------- *)
\* C5: after Config every descriptor has a non-empty TaskUUID, the supplied
\* one verbatim or a generated one.
C5_TaskUUIDNonEmpty ==
  \A c \in Clients : \A i \in 1..Len(g[c].options) :
    /\ g[c].options[i].TaskUUID # ""
    /\ Supplied(lastBatch[c][i], "taskUUID") =>
         g[c].options[i].TaskUUID = lastBatch[c][i]["taskUUID"].v
    /\ ~Supplied(lastBatch[c][i], "taskUUID") =>
         Contains(issued, g[c].options[i].TaskUUID)

(* ---------------- C6 ---------------- *)
\* C6: generated task IDs never coincide, within a batch or across Config
\* calls, and reach the payload at the position of the task they were
\* generated for (uuid.New returning a fresh value on each call).
C6_GeneratedIDsDistinct ==
  /\ \A i, j \in 1..Len(issued) : i # j => issued[i] # issued[j]
  /\ \A c \in Clients : \A i, j \in Tasks(c) :
       ( /\ i < j
         /\ ~Supplied(lastBatch[c][i], "taskUUID")
         /\ ~Supplied(lastBatch[c][j], "taskUUID") )
       => /\ g[c].options[i].TaskUUID # g[c].options[j].TaskUUID
          /\ \E m, n \in 1..Len(issued) :
               /\ m < n
               /\ issued[m] = g[c].options[i].TaskUUID
               /\ issued[n] = g[c].options[j].TaskUUID
          /\ Sent(c) =>
               /\ WireObject(c, i)["taskUUID"].v = g[c].options[i].TaskUUID
               /\ WireObject(c, j)["taskUUID"].v = g[c].options[j].TaskUUID

\* a posted batch of two tasks that both had their ID generated, after an
\* earlier Config call that generated one too
C6_Witness ==
  \E c \in Clients :
    /\ Sent(c) /\ nConfigs[c] = 2 /\ Len(issued) >= 3
    /\ \E i, j \in Tasks(c) :
         /\ i < j
         /\ ~Supplied(lastBatch[c][i], "taskUUID")
         /\ ~Supplied(lastBatch[c][j], "taskUUID")

(* ---------------- C7 ---------------- *)
\* the envelope client c's last exchange carried, as the provider wrote it
Envelope(c) == Bodies[call[c].x.body]

\* the exchange of client c's last call completed with a decodable envelope
Completed(c) ==
  /\ call[c].done
  /\ call[c].err.kind # "config"
  /\ ~call[c].x.doErr
  /\ call[c].x.decodable

\* C7: status >= 400 with a decodable envelope gives a non-nil error whose
\* text carries the provider's error records, and no success records, even
\* when the envelope holds success records.
C7_ProviderErrorSurfaced ==
  \A c \in Clients : (Completed(c) /\ call[c].x.status >= 400) =>
    /\ call[c].err.kind = "provider"
    /\ call[c].err.text.Errors =
         (IF "errors" \in DOMAIN Envelope(c) THEN Envelope(c).errors ELSE << >>)
    /\ call[c].data.isNil

\* status 400 with an envelope holding both success and error records
C7_Witness ==
  \E c \in Clients :
    /\ Completed(c) /\ call[c].x.status = 400
    /\ "data" \in DOMAIN Envelope(c) /\ "errors" \in DOMAIN Envelope(c)
    /\ call[c].err.kind = "provider"

(* ---------------- C8 ---------------- *)
\* C8: a GenerateV1 call posts at most once, exactly once when the payload
\* was built, and never again after a failure.
C8_SinglePost ==
  \A c \in Clients : call[c].done =>
    /\ Len(call[c].posted) <= 1
    /\ buildClient(g[c], v1Domain).err = "" => Len(call[c].posted) = 1
    /\ \A k \in 1..Len(call[c].posted) : call[c].posted[k].method = "POST"

\* a call that posted once and ended in a transport failure
C8_Witness ==
  \E c \in Clients :
    /\ call[c].done /\ Len(call[c].posted) = 1
    /\ call[c].err.kind = "transport"

(* ---------------- C9 ---------------- *)
\* C9: N option maps give N descriptors and N wire objects, descriptor i
\* from option map i and wire object i from descriptor i.
C9_OrderAndLength ==
  \A c \in Clients :
    /\ Len(g[c].options) = Len(lastBatch[c])
    /\ \A i \in Tasks(c) :
         /\ Supplied(lastBatch[c][i], "prompt") =>
              g[c].options[i].Prompt = lastBatch[c][i]["prompt"].v
         /\ Supplied(lastBatch[c][i], "taskUUID") =>
              g[c].options[i].TaskUUID = lastBatch[c][i]["taskUUID"].v
         /\ Supplied(lastBatch[c][i], "width") =>
              g[c].options[i].Width = lastBatch[c][i]["width"].v
    /\ Sent(c) =>
         /\ Len(Wire(c)) = Len(g[c].options)
         /\ \A i \in 1..Len(g[c].options) :
              /\ g[c].options[i].Prompt # "" =>
                   /\ "positivePrompt" \in DOMAIN WireObject(c, i)
                   /\ WireObject(c, i)["positivePrompt"].v = g[c].options[i].Prompt
              /\ g[c].options[i].TaskUUID # "" =>
                   /\ "taskUUID" \in DOMAIN WireObject(c, i)
                   /\ WireObject(c, i)["taskUUID"].v = g[c].options[i].TaskUUID
              /\ WireObject(c, i)["width"].v = g[c].options[i].Width

\* a posted batch of two tasks with different prompts
C9_Witness ==
  \E c \in Clients :
    /\ Sent(c) /\ Len(lastBatch[c]) = 2 /\ Len(Wire(c)) = 2
    /\ g[c].options[1].Prompt # g[c].options[2].Prompt
    /\ g[c].options[1].Prompt # "" /\ g[c].options[2].Prompt # ""

(* ---------------- C10 ---------------- *)
\* C10: status < 400 with a decodable envelope gives a nil error and exactly
\* the envelope's success records in their order; error records in the
\* envelope are not returned and do not fail the call.
C10_SuccessRecordsReturned ==
  \A c \in Clients : (Completed(c) /\ call[c].x.status < 400) =>
    /\ call[c].err.kind = "nil"
    /\ ~call[c].data.isNil
    /\ call[c].data.recs =
         (IF "data" \in DOMAIN Envelope(c) THEN Envelope(c).data ELSE << >>)

\* status 399 with an envelope holding two success records and an error record
C10_Witness ==
  \E c \in Clients :
    /\ Completed(c) /\ call[c].x.status = 399
    /\ "errors" \in DOMAIN Envelope(c) /\ Len(Envelope(c).errors) > 0
    /\ Len(call[c].data.recs) = 2
(* ---------------- C11 ---------------- *)
\* C11: a failed exchange or an undecodable body gives the transport error
\* and no success records at every status code; the provider error comes
\* only from a decoded body with status >= 400.
C11_TransportErrorDistinct ==
  \A c \in Clients : (call[c].done /\ Len(call[c].posted) >= 1) =>
    /\ (call[c].x.doErr \/ ~call[c].x.decodable) =>
         /\ call[c].err.kind = "transport"
         /\ call[c].data.isNil
    /\ call[c].err.kind = "provider" =>
         /\ ~call[c].x.doErr
         /\ call[c].x.decodable
         /\ call[c].x.status >= 400

\* an undecodable body that came with status 500, reported as transport error
C11_Witness ==
  \E c \in Clients :
    /\ call[c].done /\ ~call[c].x.doErr /\ ~call[c].x.decodable
    /\ call[c].x.status = 500
    /\ call[c].err.kind = "transport"
(* ---------------- C15 ---------------- *)
\* the descriptor field an option key is stored in
OptionField ==
  [ taskType |-> "TaskType", prompt |-> "Prompt", width |-> "Width",
    height |-> "Height", model |-> "Model", results |-> "NumberOfResults",
    uploadEndpoint |-> "UploadEndpoint", checkNSFW |-> "CheckNSFW",
    includeCost |-> "IncludeCost", outputType |-> "OutputType",
    outputFormat |-> "OutputFormat" ]

C16_GenerateV1KeepsState ==
  [][ (nConfigs' = nConfigs) =>
        /\ g' = g
        /\ \A c \in Clients :
             (call[c].done /\ call'[c].done) => call'[c].posted = call[c].posted ]_vars

\* a call that ended in a provider error on a client still holding its two
\* descriptors and its omitted fields
C16_Witness ==
  \E c \in Clients :
    /\ call[c].done /\ call[c].err.kind = "provider"
    /\ Len(g[c].options) = 2 /\ Len(lastBatch[c]) = 2
    /\ Len(g[c].omittedFields) > 0
(* ---------------- C17 ---------------- *)
\* C17: when at least one task of the batch does not supply a flag, the flag
\* is absent from the wire object of every task of the batch, those that
\* supplied it included.
C17_OmissionIsBatchWide ==
  \A c \in Clients : Sent(c) =>
    \A flag \in BoolFlags :
      (\E i \in Tasks(c) : ~Supplied(lastBatch[c][i], flag)) =>
        \A j \in 1..Len(Wire(c)) : flag \notin DOMAIN WireObject(c, j)

\* a posted batch where one task leaves checkNSFW out and another supplies
\* it as an explicit false
C17_Witness ==
  \E c \in Clients : Sent(c) /\ \E i, j \in Tasks(c) :
    /\ ~Supplied(lastBatch[c][i], "checkNSFW")
    /\ Supplied(lastBatch[c][j], "checkNSFW")
    /\ ~lastBatch[c][j]["checkNSFW"].v
    /\ "checkNSFW" \notin DOMAIN WireObject(c, j)

(* ---------------- C18 ---------------- *)
\* C18: on a client configured once, with a batch whose every task supplies
\* a flag, each wire object carries the flag with the supplied value; an
\* explicit false goes out as false.
C18_SuppliedFlagOnWire ==
  \A c \in Clients : (Sent(c) /\ nConfigs[c] = 1) =>
    \A flag \in BoolFlags :
      (\A i \in Tasks(c) : Supplied(lastBatch[c][i], flag)) =>
        \A i \in Tasks(c) :
          /\ flag \in DOMAIN WireObject(c, i)
          /\ WireObject(c, i)[flag] = [j |-> "bool", v |-> lastBatch[c][i][flag].v]

\* a first batch whose tasks all supply checkNSFW, one of them as false, posted
C18_Witness ==
  \E c \in Clients :
    /\ Sent(c) /\ nConfigs[c] = 1
    /\ \A i \in Tasks(c) : Supplied(lastBatch[c][i], "checkNSFW")
    /\ \E i \in Tasks(c) :
         /\ ~lastBatch[c][i]["checkNSFW"].v
         /\ WireObject(c, i)["checkNSFW"] = [j |-> "bool", v |-> FALSE]
(* ---------------- C19 ---------------- *)
\* C19: no wire object holds a key whose value is the empty string, for the
\* plain string fields and the string-backed enum fields alike.
C19_NoEmptyStringOnWire ==
  \A c \in Clients : Sent(c) =>
    \A i \in 1..Len(Wire(c)) : \A key \in DOMAIN WireObject(c, i) :
      ~(WireObject(c, i)[key].j = "string" /\ WireObject(c, i)[key].v = "")

(* ---------------- C20 ---------------- *)
\* C20: the width and height on the wire are the descriptor's pixel values,
\* unchanged by the way through int16 and back, above 32767 too.
C20_DimensionsExact ==
  \A c \in Clients : Sent(c) =>
    \A i \in 1..Len(g[c].options) :
      /\ i \in DOMAIN Wire(c)
      /\ WireObject(c, i)["width"] = [j |-> "number", v |-> g[c].options[i].Width]
      /\ WireObject(c, i)["height"] = [j |-> "number", v |-> g[c].options[i].Height]

\* a posted descriptor with a height above 32767
C20_Witness ==
  \E c \in Clients : Sent(c) /\ \E i \in 1..Len(g[c].options) :
    /\ g[c].options[i].Height > 32767
    /\ WireObject(c, i)["height"].v = g[c].options[i].Height
(* ---------------- C12 ---------------- *)
\* some recognized key of the batch holds a value of the wrong type
HasWrongType(batch) ==
  \E i \in 1..Len(batch) : \E k \in 1..Len(ConfigKeys) :
    WrongType(batch[i], ConfigKeys[k])

\* C12: a recognized key with a value of the wrong type is reported as a
\* configuration error returned to the caller, and nothing is posted for
\* that batch.
C12_WrongTypeIsReturnedError ==
  \A c \in Clients : HasWrongType(lastBatch[c]) =>
    /\ ~panicked[c]
    /\ call[c].done =>
         /\ call[c].err.kind = "config"
         /\ call[c].posted = << >>
(* ---------------- C13 ---------------- *)
\* the option map without the keys Config does not read
Recognized(data) ==
  [ key \in (DOMAIN data) \cap (DOMAIN AssertedType) |-> data[key] ]

HasUnknownKey(data) == \E key \in DOMAIN data : key \notin DOMAIN AssertedType

\* what Config appends to omittedFields for the recognized keys of a batch
RECURSIVE OmittedOfRecognized(_)
OmittedOfRecognized(batch) ==
  IF batch = << >> THEN << >>
  ELSE ConfigOmitted(Recognized(Head(batch))) \o OmittedOfRecognized(Tail(batch))

WireKeys == { f[2] : f \in FieldKeys } \cup {"taskUUID"}

\* C13: keys that are not option names change nothing: the descriptors, the
\* omitted fields and the payload are those of the option maps without
\* them, and nothing fails.
C13_UnknownKeysIgnored ==
  \A c \in Clients : ~HasWrongType(lastBatch[c]) =>
    /\ ~panicked[c]
    /\ Len(g[c].options) = Len(lastBatch[c])
    /\ \A i \in Tasks(c) :
         g[c].options[i] =
           ConfigOptions(Recognized(lastBatch[c][i]), g[c].options[i].TaskUUID)
    /\ LET expected == OmittedOfRecognized(lastBatch[c])
           have == g[c].omittedFields
       IN /\ Len(have) >= Len(expected)
          /\ SubSeq(have, Len(have) - Len(expected) + 1, Len(have)) = expected
    /\ call[c].done =>
         /\ call[c].err.kind # "config"
         /\ Len(call[c].posted) = 1
         /\ \A i \in Tasks(c) : DOMAIN WireObject(c, i) \subseteq WireKeys

\* a posted batch of two option maps that carry unknown keys
C13_Witness ==
  \E c \in Clients :
    /\ Sent(c) /\ Len(lastBatch[c]) = 2
    /\ \A i \in Tasks(c) : HasUnknownKey(lastBatch[c][i])
    /\ ~HasWrongType(lastBatch[c])
(* ---------------- C14 ---------------- *)
\* everything the model holds about client c
ClientState(c) == << g[c], lastBatch[c], nConfigs[c], call[c], panicked[c] >>

\* C14: two clients do not affect each other: a call on one client leaves
\* the other's descriptors, omitted fields, credential and last request as
\* they were, and what a client posts is built from its own credential and
\* descriptors (generated task IDs come from the one uuid source).
C14_ClientsIndependent ==
  /\ [][ \A c, d \in Clients :
           (c # d /\ ClientState(d)' # ClientState(d)) =>
             ClientState(c)' = ClientState(c) ]_vars
  /\ [](\A c \in Clients :
          /\ g[c].apiKey = ApiKeyOf(c)
          /\ Len(g[c].options) = Len(lastBatch[c])
          /\ \A i \in Tasks(c) :
               g[c].options[i] =
                 ConfigOptions(lastBatch[c][i], g[c].options[i].TaskUUID)
          /\ Sent(c) =>
               /\ call[c].posted[1].authorization = "Bearer " \o ApiKeyOf(c)
               /\ call[c].posted = << buildClient(g[c], v1Domain).req >>)

\* both clients configured, with different batches, and both have posted
C14_Witness ==
  /\ Cardinality(Clients) = 2
  /\ \A c \in Clients : Sent(c) /\ nConfigs[c] >= 1
  /\ \E c, d \in Clients :
       /\ lastBatch[c][1]["prompt"] # lastBatch[d][1]["prompt"]
       /\ Len(g[c].omittedFields) > 0 /\ Len(g[d].omittedFields) = 0
====
